---- MODULE Spec2Model ----
(***************************************************************************)
(* Model of edtui's key dispatcher, src/src/events/key.rs:                 *)
(* KeyCombinationHandler (lookup, register, capture_on_insert), its        *)
(* registry operations insert / extend / remove, the prefix lookup `get`,  *)
(* the dispatcher `on_event` with its Insert/Search passthrough arms, and  *)
(* the two preset keymaps vim_keybindings / emacs_keybindings.             *)
(*                                                                         *)
(* The editor state (crate::EditorState) and the effects of the actions    *)
(* (crate::actions) live outside this file; they are modelled by the    *)
(* small record `state` and by `execute`, following the specification.     *)
(***************************************************************************)
EXTENDS Integers, Sequences, FiniteSets, TLC

VARIABLES
    lookup,             \* KeyCombinationHandler.lookup : Vec<KeyCombination>
    register,           \* KeyCombinationHandler.register : HashMap<KeyCombinationRegister, Action>
    capture_on_insert,  \* KeyCombinationHandler.capture_on_insert : bool
    state,              \* the host's EditorState (mode, text, cursor, search, captures)
    preset,             \* which constructor built the handler: "vim" or "emacs"
    history             \* the on_event calls made since the registry was last written

vars == <<lookup, register, capture_on_insert, state, preset, history>>

---------------------------------------------------------------------------
(* Bounds of the model. *)

\* longest text the buffer may hold
MaxText == 1
\* longest search query
MaxQuery == 1
\* longest chord of the presets ([c,i,w]); also the length of `history`
MaxChordLen == 3

---------------------------------------------------------------------------
(* Key combinations (crokey::KeyCombination, crossterm KeyCode/KeyModifiers). *)

NONE == "NONE"
CONTROL == "CONTROL"

Char(c) == <<"Char", c>>
Esc == <<"Esc", "">>
Enter == <<"Enter", "">>
Backspace == <<"Backspace", "">>
Delete == <<"Delete", "">>
Tab == <<"Tab", "">>
Up == <<"Up", "">>
Down == <<"Down", "">>
Left == <<"Left", "">>
Right == <<"Right", "">>
Home == <<"Home", "">>
End == <<"End", "">>

\* KeyCombination::one_key(code, modifiers)
one_key(code, modifiers) == [codes |-> <<code>>, modifiers |-> modifiers]

\* key.codes.first()
first(codes) == codes[1]

is_char(key_code) == key_code[1] = "Char"

(* EditorMode *)
Normal == "Normal"
Insert == "Insert"
Visual == "Visual"
Search == "Search"
EditorMode == {Normal, Insert, Visual, Search}

(* KeyCombinationRegister { keys, mode } and its constructors new, n, v, i, s *)
new(key, mode) == [keys |-> key, mode |-> mode]
n(key) == new(key, Normal)
v(key) == new(key, Visual)
i(key) == new(key, Insert)
s(key) == new(key, Search)

(* An Action is the list of the atomic actions it runs: one element for a   *)
(* plain action, the children in chain order for a Composed one.            *)
Eff(name, arg) == [name |-> name, arg |-> arg]
SwitchMode(m) == Eff("SwitchMode", m)
InsertChar(c) == Eff("InsertChar", c)
AppendCharToSearch(c) == Eff("AppendCharToSearch", c)

(* HashMap::from(array): the entries are inserted in order, so a key that   *)
(* occurs twice keeps the action of its last occurrence.                    *)
HashMap_from(entries) ==
    [k \in {entries[j][1] : j \in 1..Len(entries)} |->
        LET last == CHOOSE j \in 1..Len(entries) :
                        /\ entries[j][1] = k
                        /\ \A h \in (j+1)..Len(entries) : entries[h][1] # k
        IN entries[last][2]]

(* vim_keybindings, key.rs:118-899 (default build: the system-editor entry is compiled out) *)
vim_keybindings ==
    HashMap_from(<<
        <<i(<<one_key(Esc, NONE)>>), <<Eff("SwitchMode", "Normal")>>>>,
        <<v(<<one_key(Esc, NONE)>>), <<Eff("SwitchMode", "Normal")>>>>,
        <<n(<<one_key(Char("i"), NONE)>>), <<Eff("SwitchMode", "Insert")>>>>,
        <<n(<<one_key(Char("v"), NONE)>>), <<Eff("SwitchMode", "Visual")>>>>,
        <<n(<<one_key(Char("/"), NONE)>>), <<Eff("StartSearch", ""), Eff("SwitchMode", "Search")>>>>,
        <<s(<<one_key(Enter, NONE)>>), <<Eff("FindFirst", ""), Eff("SwitchMode", "Normal")>>>>,
        <<n(<<one_key(Char("n"), NONE)>>), <<Eff("FindNext", "")>>>>,
        <<n(<<one_key(Char("N"), NONE)>>), <<Eff("FindPrevious", "")>>>>,
        <<s(<<one_key(Esc, NONE)>>), <<Eff("StopSearch", ""), Eff("SwitchMode", "Normal")>>>>,
        <<s(<<one_key(Backspace, NONE)>>), <<Eff("RemoveCharFromSearch", "")>>>>,
        <<n(<<one_key(Char("a"), NONE)>>), <<Eff("SwitchMode", "Insert"), Eff("MoveForward", "1")>>>>,
        <<n(<<one_key(Char("l"), NONE)>>), <<Eff("MoveForward", "1")>>>>,
        <<v(<<one_key(Char("l"), NONE)>>), <<Eff("MoveForward", "1")>>>>,
        <<n(<<one_key(Right, NONE)>>), <<Eff("MoveForward", "1")>>>>,
        <<v(<<one_key(Right, NONE)>>), <<Eff("MoveForward", "1")>>>>,
        <<i(<<one_key(Right, NONE)>>), <<Eff("MoveForward", "1")>>>>,
        <<n(<<one_key(Char("h"), NONE)>>), <<Eff("MoveBackward", "1")>>>>,
        <<v(<<one_key(Char("h"), NONE)>>), <<Eff("MoveBackward", "1")>>>>,
        <<n(<<one_key(Left, NONE)>>), <<Eff("MoveBackward", "1")>>>>,
        <<v(<<one_key(Left, NONE)>>), <<Eff("MoveBackward", "1")>>>>,
        <<i(<<one_key(Left, NONE)>>), <<Eff("MoveBackward", "1")>>>>,
        <<n(<<one_key(Char("k"), NONE)>>), <<Eff("MoveUp", "1")>>>>,
        <<v(<<one_key(Char("k"), NONE)>>), <<Eff("MoveUp", "1")>>>>,
        <<n(<<one_key(Up, NONE)>>), <<Eff("MoveUp", "1")>>>>,
        <<v(<<one_key(Up, NONE)>>), <<Eff("MoveUp", "1")>>>>,
        <<i(<<one_key(Up, NONE)>>), <<Eff("MoveUp", "1")>>>>,
        <<n(<<one_key(Char("j"), NONE)>>), <<Eff("MoveDown", "1")>>>>,
        <<v(<<one_key(Char("j"), NONE)>>), <<Eff("MoveDown", "1")>>>>,
        <<n(<<one_key(Down, NONE)>>), <<Eff("MoveDown", "1")>>>>,
        <<v(<<one_key(Down, NONE)>>), <<Eff("MoveDown", "1")>>>>,
        <<i(<<one_key(Down, NONE)>>), <<Eff("MoveDown", "1")>>>>,
        <<n(<<one_key(Char("w"), NONE)>>), <<Eff("MoveWordForward", "1")>>>>,
        <<v(<<one_key(Char("w"), NONE)>>), <<Eff("MoveWordForward", "1")>>>>,
        <<n(<<one_key(Char("e"), NONE)>>), <<Eff("MoveWordForwardToEndOfWord", "1")>>>>,
        <<v(<<one_key(Char("e"), NONE)>>), <<Eff("MoveWordForwardToEndOfWord", "1")>>>>,
        <<n(<<one_key(Char("b"), NONE)>>), <<Eff("MoveWordBackward", "1")>>>>,
        <<v(<<one_key(Char("b"), NONE)>>), <<Eff("MoveWordBackward", "1")>>>>,
        <<n(<<one_key(Char("0"), NONE)>>), <<Eff("MoveToStartOfLine", "")>>>>,
        <<n(<<one_key(Char("_"), NONE)>>), <<Eff("MoveToFirst", "")>>>>,
        <<n(<<one_key(Char("$"), NONE)>>), <<Eff("MoveToEndOfLine", "")>>>>,
        <<v(<<one_key(Char("0"), NONE)>>), <<Eff("MoveToStartOfLine", "")>>>>,
        <<v(<<one_key(Char("_"), NONE)>>), <<Eff("MoveToFirst", "")>>>>,
        <<v(<<one_key(Char("$"), NONE)>>), <<Eff("MoveToEndOfLine", "")>>>>,
        <<n(<<one_key(Char("d"), NONE)>>), <<Eff("MoveHalfPageDown", "")>>>>,
        <<v(<<one_key(Char("d"), NONE)>>), <<Eff("MoveHalfPageDown", "")>>>>,
        <<n(<<one_key(Char("u"), NONE)>>), <<Eff("MoveHalfPageUp", "")>>>>,
        <<v(<<one_key(Char("u"), NONE)>>), <<Eff("MoveHalfPageUp", "")>>>>,
        <<i(<<one_key(Home, NONE)>>), <<Eff("MoveToStartOfLine", "")>>>>,
        <<n(<<one_key(Home, NONE)>>), <<Eff("MoveToStartOfLine", "")>>>>,
        <<v(<<one_key(Home, NONE)>>), <<Eff("MoveToStartOfLine", "")>>>>,
        <<i(<<one_key(End, NONE)>>), <<Eff("MoveToEndOfLine", "")>>>>,
        <<n(<<one_key(End, NONE)>>), <<Eff("MoveToEndOfLine", "")>>>>,
        <<v(<<one_key(End, NONE)>>), <<Eff("MoveToEndOfLine", "")>>>>,
        <<i(<<one_key(Char("u"), NONE)>>), <<Eff("DeleteToFirstCharOfLine", "")>>>>,
        <<n(<<one_key(Char("I"), NONE)>>), <<Eff("SwitchMode", "Insert"), Eff("MoveToFirst", "")>>>>,
        <<n(<<one_key(Char("A"), NONE)>>), <<Eff("SwitchMode", "Insert"), Eff("MoveToEndOfLine", ""), Eff("MoveForward", "1")>>>>,
        <<n(<<one_key(Char("g"), NONE), one_key(Char("g"), NONE)>>), <<Eff("MoveToFirstRow", "")>>>>,
        <<v(<<one_key(Char("g"), NONE), one_key(Char("g"), NONE)>>), <<Eff("MoveToFirstRow", "")>>>>,
        <<n(<<one_key(Char("G"), NONE)>>), <<Eff("MoveToLastRow", "")>>>>,
        <<v(<<one_key(Char("G"), NONE)>>), <<Eff("MoveToLastRow", "")>>>>,
        <<n(<<one_key(Char("%"), NONE)>>), <<Eff("MoveToMatchinBracket", "")>>>>,
        <<v(<<one_key(Char("%"), NONE)>>), <<Eff("MoveToMatchinBracket", "")>>>>,
        <<n(<<one_key(Char("o"), NONE)>>), <<Eff("SwitchMode", "Insert"), Eff("AppendNewline", "1")>>>>,
        <<n(<<one_key(Char("O"), NONE)>>), <<Eff("SwitchMode", "Insert"), Eff("InsertNewline", "1")>>>>,
        <<i(<<one_key(Enter, NONE)>>), <<Eff("LineBreak", "1")>>>>,
        <<n(<<one_key(Char("x"), NONE)>>), <<Eff("RemoveChar", "1")>>>>,
        <<n(<<one_key(Delete, NONE)>>), <<Eff("RemoveChar", "1")>>>>,
        <<i(<<one_key(Backspace, NONE)>>), <<Eff("DeleteChar", "1")>>>>,
        <<i(<<one_key(Delete, NONE)>>), <<Eff("DeleteCharForward", "1")>>>>,
        <<n(<<one_key(Char("d"), NONE), one_key(Char("d"), NONE)>>), <<Eff("DeleteLine", "1")>>>>,
        <<n(<<one_key(Char("D"), NONE)>>), <<Eff("DeleteToEndOfLine", "")>>>>,
        <<v(<<one_key(Char("d"), NONE)>>), <<Eff("DeleteSelection", ""), Eff("SwitchMode", "Normal")>>>>,
        <<n(<<one_key(Char("J"), NONE)>>), <<Eff("JoinLineWithLineBelow", "")>>>>,
        <<v(<<one_key(Char("i"), NONE), one_key(Char("w"), NONE)>>), <<Eff("SelectInnerWord", "")>>>>,
        <<v(<<one_key(Char("i"), NONE), one_key(Char("\""), NONE)>>), <<Eff("SelectInnerBetween", "\"\"")>>>>,
        <<v(<<one_key(Char("i"), NONE), one_key(Char("'"), NONE)>>), <<Eff("SelectInnerBetween", "''")>>>>,
        <<v(<<one_key(Char("i"), NONE), one_key(Char("("), NONE)>>), <<Eff("SelectInnerBetween", "()")>>>>,
        <<v(<<one_key(Char("i"), NONE), one_key(Char(")"), NONE)>>), <<Eff("SelectInnerBetween", "()")>>>>,
        <<v(<<one_key(Char("i"), NONE), one_key(Char("{"), NONE)>>), <<Eff("SelectInnerBetween", "{}")>>>>,
        <<v(<<one_key(Char("i"), NONE), one_key(Char("}"), NONE)>>), <<Eff("SelectInnerBetween", "{}")>>>>,
        <<v(<<one_key(Char("i"), NONE), one_key(Char("["), NONE)>>), <<Eff("SelectInnerBetween", "[]")>>>>,
        <<v(<<one_key(Char("i"), NONE), one_key(Char("]"), NONE)>>), <<Eff("SelectInnerBetween", "[]")>>>>,
        <<n(<<one_key(Char("c"), NONE), one_key(Char("i"), NONE), one_key(Char("w"), NONE)>>), <<Eff("SwitchMode", "Insert"), Eff("ChangeInnerWord", "")>>>>,
        <<n(<<one_key(Char("c"), NONE), one_key(Char("i"), NONE), one_key(Char("\""), NONE)>>), <<Eff("SwitchMode", "Insert"), Eff("ChangeInnerBetween", "\"\"")>>>>,
        <<n(<<one_key(Char("c"), NONE), one_key(Char("i"), NONE), one_key(Char("'"), NONE)>>), <<Eff("SwitchMode", "Insert"), Eff("ChangeInnerBetween", "''")>>>>,
        <<n(<<one_key(Char("c"), NONE), one_key(Char("i"), NONE), one_key(Char("("), NONE)>>), <<Eff("SwitchMode", "Insert"), Eff("ChangeInnerBetween", "()")>>>>,
        <<n(<<one_key(Char("c"), NONE), one_key(Char("i"), NONE), one_key(Char(")"), NONE)>>), <<Eff("SwitchMode", "Insert"), Eff("ChangeInnerBetween", "()")>>>>,
        <<n(<<one_key(Char("c"), NONE), one_key(Char("i"), NONE), one_key(Char("{"), NONE)>>), <<Eff("SwitchMode", "Insert"), Eff("ChangeInnerBetween", "{}")>>>>,
        <<n(<<one_key(Char("c"), NONE), one_key(Char("i"), NONE), one_key(Char("}"), NONE)>>), <<Eff("SwitchMode", "Insert"), Eff("ChangeInnerBetween", "{}")>>>>,
        <<n(<<one_key(Char("c"), NONE), one_key(Char("i"), NONE), one_key(Char("["), NONE)>>), <<Eff("SwitchMode", "Insert"), Eff("ChangeInnerBetween", "[]")>>>>,
        <<n(<<one_key(Char("c"), NONE), one_key(Char("i"), NONE), one_key(Char("]"), NONE)>>), <<Eff("SwitchMode", "Insert"), Eff("ChangeInnerBetween", "[]")>>>>,
        <<v(<<one_key(Char("c"), NONE)>>), <<Eff("SwitchMode", "Insert"), Eff("ChangeSelection", "")>>>>,
        <<v(<<one_key(Char("x"), NONE)>>), <<Eff("ChangeSelection", ""), Eff("SwitchMode", "Normal")>>>>,
        <<n(<<one_key(Char("V"), NONE)>>), <<Eff("SelectLine", "")>>>>,
        <<n(<<one_key(Char("u"), NONE)>>), <<Eff("Undo", "")>>>>,
        <<n(<<one_key(Char("r"), NONE)>>), <<Eff("Redo", "")>>>>,
        <<v(<<one_key(Char("y"), NONE)>>), <<Eff("CopySelection", ""), Eff("SwitchMode", "Normal")>>>>,
        <<n(<<one_key(Char("y"), NONE), one_key(Char("y"), NONE)>>), <<Eff("CopyLine", "")>>>>,
        <<n(<<one_key(Char("p"), NONE)>>), <<Eff("Paste", "")>>>>,
        <<v(<<one_key(Char("p"), NONE)>>), <<Eff("PasteOverSelection", ""), Eff("SwitchMode", "Normal")>>>>
    >>)

(* emacs_keybindings, key.rs:902-1190 *)
emacs_keybindings ==
    HashMap_from(<<
        <<i(<<one_key(Char("s"), NONE)>>), <<Eff("StartSearch", ""), Eff("SwitchMode", "Search")>>>>,
        <<s(<<one_key(Char("s"), NONE)>>), <<Eff("FindNext", "")>>>>,
        <<s(<<one_key(Char("r"), NONE)>>), <<Eff("FindPrevious", "")>>>>,
        <<s(<<one_key(Enter, NONE)>>), <<Eff("SelectCurrentSearch", ""), Eff("SwitchMode", "Insert")>>>>,
        <<s(<<one_key(Char("g"), NONE)>>), <<Eff("StopSearch", ""), Eff("SwitchMode", "Insert")>>>>,
        <<s(<<one_key(Backspace, NONE)>>), <<Eff("RemoveCharFromSearch", "")>>>>,
        <<i(<<one_key(Char("f"), NONE)>>), <<Eff("MoveForward", "1")>>>>,
        <<i(<<one_key(Right, NONE)>>), <<Eff("MoveForward", "1")>>>>,
        <<i(<<one_key(Char("b"), NONE)>>), <<Eff("MoveBackward", "1")>>>>,
        <<i(<<one_key(Left, NONE)>>), <<Eff("MoveBackward", "1")>>>>,
        <<i(<<one_key(Char("p"), NONE)>>), <<Eff("MoveUp", "1")>>>>,
        <<i(<<one_key(Up, NONE)>>), <<Eff("MoveUp", "1")>>>>,
        <<i(<<one_key(Char("n"), NONE)>>), <<Eff("MoveDown", "1")>>>>,
        <<i(<<one_key(Down, NONE)>>), <<Eff("MoveDown", "1")>>>>,
        <<i(<<one_key(Char("f"), NONE)>>), <<Eff("MoveWordForward", "1")>>>>,
        <<i(<<one_key(Char("b"), NONE)>>), <<Eff("MoveWordBackward", "1")>>>>,
        <<i(<<one_key(Char("v"), NONE)>>), <<Eff("MoveHalfPageDown", "")>>>>,
        <<i(<<one_key(Char("v"), NONE)>>), <<Eff("MoveHalfPageUp", "")>>>>,
        <<i(<<one_key(Char("<"), NONE)>>), <<Eff("MoveToFirstRow", "")>>>>,
        <<i(<<one_key(Char(">"), NONE)>>), <<Eff("MoveToLastRow", "")>>>>,
        <<i(<<one_key(Char("a"), NONE)>>), <<Eff("MoveToStartOfLine", "")>>>>,
        <<i(<<one_key(Home, NONE)>>), <<Eff("MoveToStartOfLine", "")>>>>,
        <<i(<<one_key(End, NONE)>>), <<Eff("MoveToEndOfLine", "")>>>>,
        <<i(<<one_key(Char("e"), NONE)>>), <<Eff("MoveToEndOfLine", "")>>>>,
        <<i(<<one_key(Char("u"), NONE)>>), <<Eff("DeleteToFirstCharOfLine", "")>>>>,
        <<i(<<one_key(Char("k"), NONE)>>), <<Eff("DeleteToEndOfLine", "")>>>>,
        <<i(<<one_key(Char("o"), NONE)>>), <<Eff("LineBreak", "1"), Eff("MoveUp", "1"), Eff("MoveToEndOfLine", "")>>>>,
        <<i(<<one_key(Enter, NONE)>>), <<Eff("LineBreak", "1")>>>>,
        <<i(<<one_key(Char("j"), NONE)>>), <<Eff("LineBreak", "1")>>>>,
        <<i(<<one_key(Backspace, NONE)>>), <<Eff("DeleteChar", "1")>>>>,
        <<i(<<one_key(Char("h"), NONE)>>), <<Eff("DeleteChar", "1")>>>>,
        <<i(<<one_key(Backspace, NONE)>>), <<Eff("DeleteCharForward", "1")>>>>,
        <<i(<<one_key(Char("d"), NONE)>>), <<Eff("DeleteCharForward", "1")>>>>,
        <<i(<<one_key(Char("d"), NONE)>>), <<Eff("SwitchMode", "Visual"), Eff("MoveWordForwardToEndOfWord", "1"), Eff("DeleteSelection", ""), Eff("SwitchMode", "Insert")>>>>,
        <<i(<<one_key(Backspace, NONE)>>), <<Eff("SwitchMode", "Visual"), Eff("MoveWordBackward", "1"), Eff("DeleteSelection", ""), Eff("SwitchMode", "Insert")>>>>,
        <<i(<<one_key(Char("u"), NONE)>>), <<Eff("Undo", "")>>>>,
        <<i(<<one_key(Char("r"), NONE)>>), <<Eff("Redo", "")>>>>,
        <<i(<<one_key(Char("y"), NONE)>>), <<Eff("Paste", "")>>>>
    >>)

---------------------------------------------------------------------------
(* Option<Action> *)
None == <<>>
Some(a) == <<a>>

\* slice::starts_with
starts_with(keys, needle) ==
    /\ Len(needle) <= Len(keys)
    /\ \A j \in 1..Len(needle) : keys[j] = needle[j]

\* variant of matching_keys: the closure forgets `k.mode == key.mode`
matching_keys_any_mode(reg, key) ==
    {k \in DOMAIN reg : starts_with(k.keys, key.keys)}

\* variant of matching_keys: the bindings of Normal mode are active in every mode
matching_keys_normal_too(reg, key) ==
    {k \in DOMAIN reg :
        (k.mode = key.mode \/ k.mode = Normal) /\ starts_with(k.keys, key.keys)}

\* variant of matching_keys: only chords longer than the candidate match
matching_keys_strict_prefix(reg, key) ==
    {k \in DOMAIN reg :
        k.mode = key.mode /\ Len(k.keys) > Len(key.keys) /\ starts_with(k.keys, key.keys)}

\* variant of matching_keys: only chords as long as the candidate match
matching_keys_same_length(reg, key) ==
    {k \in DOMAIN reg :
        k.mode = key.mode /\ Len(k.keys) = Len(key.keys) /\ starts_with(k.keys, key.keys)}

\* the registry entries `find` may stop at, key.rs:101-104
matching_keys(reg, key) ==
    {k \in DOMAIN reg : k.mode = key.mode /\ starts_with(k.keys, key.keys)}

(* variant of get that does what its doc comment says: an action only on   *)
(* an exact match, the key kept in lookup while the sequence is a strict    *)
(* prefix of a registered chord or matches several of them.                 *)
get_exact(reg, lk, c, mode) ==
    LET pushed == Append(lk, c)
        key == new(pushed, mode)
        matching == matching_keys(reg, key)
    IN IF matching = {key}
       THEN {[action |-> Some(reg[key]), lookup |-> <<>>]}
       ELSE IF matching # {}
       THEN {[action |-> None, lookup |-> pushed]}
       ELSE {[action |-> None, lookup |-> <<>>]}

(* variant of get: the branch that found nothing forgets to clear lookup *)
get_no_clear(reg, lk, c, mode) ==
    LET pushed == Append(lk, c)
        key == new(pushed, mode)
        matching == matching_keys(reg, key)
    IN IF matching # {}
       THEN {[action |-> Some(reg[k]), lookup |-> <<>>] : k \in matching}
       ELSE {[action |-> None, lookup |-> pushed]}

(* KeyCombinationHandler::get, key.rs:97-114.  The result is the set of the *)
(* outcomes the call can have: HashMap::iter visits the entries in an       *)
(* unspecified order, so `find` may return any of the matching entries.     *)
get(reg, lk, c, mode) ==
    LET pushed == Append(lk, c)
        key == new(pushed, mode)
        matching == matching_keys(reg, key)
    IN IF matching # {}
       THEN {[action |-> Some(reg[k]), lookup |-> <<>>] : k \in matching}
       ELSE {[action |-> None, lookup |-> <<>>]}

---------------------------------------------------------------------------
(* EditorState and the effects of the actions (outside key.rs). *)

Min(a, b) == IF a < b THEN a ELSE b
Max(a, b) == IF a > b THEN a ELSE b

EditorState_new ==
    [mode |-> Normal, text |-> <<>>, cursor |-> 0, search |-> <<>>, undo |-> <<>>]

\* state.capture(): push the current text as an undo checkpoint
capture(st) == [st EXCEPT !.undo = Append(@, st.text)]

insert_at(text, col, c) ==
    SubSeq(text, 1, col) \o <<c>> \o SubSeq(text, col + 1, Len(text))

\* one atomic action applied to the editor state
apply(e, st) ==
    CASE e.name = "SwitchMode" -> [st EXCEPT !.mode = e.arg]
      [] e.name = "InsertChar" ->
            [st EXCEPT !.text = insert_at(@, st.cursor, e.arg), !.cursor = @ + 1]
      [] e.name = "AppendCharToSearch" -> [st EXCEPT !.search = Append(@, e.arg)]
      [] e.name = "RemoveCharFromSearch" ->
            [st EXCEPT !.search = SubSeq(@, 1, Len(@) - 1)]
      [] e.name = "StartSearch" -> [st EXCEPT !.search = <<>>]
      [] e.name = "StopSearch" -> [st EXCEPT !.search = <<>>]
      [] e.name = "MoveForward" -> [st EXCEPT !.cursor = Min(@ + 1, Len(st.text))]
      [] e.name = "MoveBackward" -> [st EXCEPT !.cursor = Max(@ - 1, 0)]
      [] e.name = "DeleteLine" -> [st EXCEPT !.text = <<>>, !.cursor = 0]
      [] OTHER -> st

\* Action::execute: a Composed action runs its children in chain order
RECURSIVE execute(_, _)
execute(action, st) ==
    IF action = <<>> THEN st
    ELSE execute(Tail(action), apply(Head(action), st))

---------------------------------------------------------------------------
(* KeyCombinationHandler::on_event, key.rs:1226-1254 *)

\* variant of match_arm: the first arm is guarded by the wrong mode
match_arm_wrong_guard(key_code, mode) ==
    CASE is_char(key_code) /\ mode = Normal -> "InsertChar"
      [] key_code = Tab /\ mode = Insert -> "InsertTab"
      [] is_char(key_code) /\ mode = Search -> "AppendCharToSearch"
      [] OTHER -> "get"

\* variant of match_arm: the Search arm is missing
match_arm_no_search(key_code, mode) ==
    CASE is_char(key_code) /\ mode = Insert -> "InsertChar"
      [] key_code = Tab /\ mode = Insert -> "InsertTab"
      [] OTHER -> "get"

\* variant of match_arm: in Search mode every key goes to the query
match_arm_search_takes_all(key_code, mode) ==
    CASE is_char(key_code) /\ mode = Insert -> "InsertChar"
      [] key_code = Tab /\ mode = Insert -> "InsertTab"
      [] mode = Search -> "AppendCharToSearch"
      [] OTHER -> "get"

\* variant of match_arm: the Tab arm is missing
match_arm_no_tab(key_code, mode) ==
    CASE is_char(key_code) /\ mode = Insert -> "InsertChar"
      [] is_char(key_code) /\ mode = Search -> "AppendCharToSearch"
      [] OTHER -> "get"

\* variant of match_arm: the Insert arms are missing
match_arm_no_insert(key_code, mode) ==
    CASE is_char(key_code) /\ mode = Search -> "AppendCharToSearch"
      [] OTHER -> "get"

\* the arm of `match key_code` that is taken
match_arm(key_code, mode) ==
    CASE is_char(key_code) /\ mode = Insert -> "InsertChar"
      [] key_code = Tab /\ mode = Insert -> "InsertTab"
      [] is_char(key_code) /\ mode = Search -> "AppendCharToSearch"
      [] OTHER -> "get"

\* what one call did: its key, the mode and the pending chord it started
\* with, the arm it took, what `get` returned (None when it was not called),
\* the atomic actions it executed in order and the checkpoints it took itself
Call(key, mode, pending, arm, returned, executed, captured) ==
    [key |-> key, mode |-> mode, pending |-> pending, arm |-> arm,
     returned |-> returned, executed |-> executed, captured |-> captured]

remember(h, call) ==
    LET all == Append(h, call)
    IN IF Len(all) > MaxChordLen THEN Tail(all) ELSE all

\* variant of passthrough: the checkpoint is taken after the insertion
passthrough_capture_after(key, action) ==
    LET st == execute(action, state)
    IN /\ state' = IF capture_on_insert THEN capture(st) ELSE st
       /\ history' = remember(history,
              Call(key, state.mode, lookup, match_arm(first(key.codes), state.mode),
                   None, action, IF capture_on_insert THEN 1 ELSE 0))
       /\ UNCHANGED <<lookup, register, capture_on_insert, preset>>

passthrough(key, action) ==
    LET st == IF capture_on_insert THEN capture(state) ELSE state
    IN /\ state' = execute(action, st)
       /\ history' = remember(history,
              Call(key, state.mode, lookup, match_arm(first(key.codes), state.mode),
                   None, action, IF capture_on_insert THEN 1 ELSE 0))
       /\ UNCHANGED <<lookup, register, capture_on_insert, preset>>

\* variant of lookup_action: a key that matches nothing stays pending
lookup_action_keeps_pending(key) ==
    LET mode == state.mode
    IN \E r \in get(register, lookup, key, mode) :
           LET action == IF r.action = None THEN <<>> ELSE r.action[1]
           IN /\ lookup' = IF r.action = None THEN Append(lookup, key) ELSE r.lookup
              /\ state' = execute(action, state)
              /\ history' = remember(history,
                     Call(key, mode, lookup, "get", r.action, action, 0))
              /\ UNCHANGED <<register, capture_on_insert, preset>>

\* variant of lookup_action: the entry that matched is taken out of the
\* registry (a binding fires once)
lookup_action_consuming(key) ==
    LET mode == state.mode
        matching == matching_keys(register, new(Append(lookup, key), mode))
    IN IF matching = {}
       THEN /\ lookup' = <<>>
            /\ history' = remember(history, Call(key, mode, lookup, "get", None, <<>>, 0))
            /\ UNCHANGED <<register, capture_on_insert, preset, state>>
       ELSE \E k \in matching :
                /\ lookup' = <<>>
                /\ state' = execute(register[k], state)
                /\ register' = [h \in DOMAIN register \ {k} |-> register[h]]
                /\ history' = remember(history,
                       Call(key, mode, lookup, "get", Some(register[k]), register[k], 0))
                /\ UNCHANGED <<capture_on_insert, preset>>

\* variant of lookup_action: only the first child of the action is executed
lookup_action_first_child(key) ==
    LET mode == state.mode
    IN \E r \in get(register, lookup, key, mode) :
           LET action == IF r.action = None THEN <<>> ELSE r.action[1]
           IN /\ lookup' = r.lookup
              /\ state' = execute(IF action = <<>> THEN <<>> ELSE <<action[1]>>, state)
              /\ history' = remember(history,
                     Call(key, mode, lookup, "get", r.action,
                          IF action = <<>> THEN <<>> ELSE <<action[1]>>, 0))
              /\ UNCHANGED <<register, capture_on_insert, preset>>

\* the last arm, key.rs:1248-1252: look the key up and execute what get returns
lookup_action(key) ==
    LET mode == state.mode
    IN \E r \in get(register, lookup, key, mode) :
           LET action == IF r.action = None THEN <<>> ELSE r.action[1]
           IN /\ lookup' = r.lookup
              /\ state' = execute(action, state)
              /\ history' = remember(history,
                     Call(key, mode, lookup, "get", r.action, action, 0))
              /\ UNCHANGED <<register, capture_on_insert, preset>>

\* on_event on a buffer that holds at most room characters
on_event_bounded(key, room) ==
    LET mode == state.mode
        key_code == first(key.codes)
        arm == match_arm(key_code, mode)
    IN CASE arm = "InsertChar" ->
              /\ Len(state.text) < room
              /\ passthrough(key, <<InsertChar(key_code[2])>>)
         [] arm = "InsertTab" ->
              /\ Len(state.text) < room
              /\ passthrough(key, <<InsertChar("\t")>>)
         [] arm = "AppendCharToSearch" ->
              /\ Len(state.search) < MaxQuery
              /\ state' = execute(<<AppendCharToSearch(key_code[2])>>, state)
              /\ history' = remember(history,
                     Call(key, mode, lookup, arm, None,
                          <<AppendCharToSearch(key_code[2])>>, 0))
              /\ UNCHANGED <<lookup, register, capture_on_insert, preset>>
         [] OTHER -> lookup_action(key)

on_event(key) == on_event_bounded(key, MaxText)

---------------------------------------------------------------------------
(* Registry operations of the host, key.rs:67-88 *)

\* variant of HashMap::insert: a key that is already present keeps its action
HashMap_insert_keep(reg, key, action) ==
    [k \in DOMAIN reg \cup {key} |-> IF k \in DOMAIN reg THEN reg[k] ELSE action]

\* variant of HashMap::insert: the chord is bound under every mode
HashMap_insert_every_mode(reg, key, action) ==
    [k \in DOMAIN reg \cup {new(key.keys, m) : m \in EditorMode} |->
        IF k.keys = key.keys THEN action ELSE reg[k]]

\* HashMap::insert
HashMap_insert(reg, key, action) ==
    [k \in DOMAIN reg \cup {key} |-> IF k = key THEN action ELSE reg[k]]

\* variant of HashMap::remove: the chord is removed under every mode
HashMap_remove_chord(reg, key) ==
    [k \in {h \in DOMAIN reg : h.keys # key.keys} |-> reg[k]]

\* HashMap::remove
HashMap_remove(reg, key) == [k \in DOMAIN reg \ {key} |-> reg[k]]

\* variant of HashMap::extend: the entries are inserted last to first
RECURSIVE HashMap_extend_reversed(_, _)
HashMap_extend_reversed(reg, entries) ==
    IF entries = <<>> THEN reg
    ELSE HashMap_insert(HashMap_extend_reversed(reg, Tail(entries)),
                        Head(entries)[1], Head(entries)[2])

\* HashMap::extend
RECURSIVE HashMap_extend(_, _)
HashMap_extend(reg, entries) ==
    IF entries = <<>> THEN reg
    ELSE HashMap_extend(HashMap_insert(reg, Head(entries)[1], Head(entries)[2]),
                        Tail(entries))

insert(key, action) ==
    /\ register' = HashMap_insert(register, key, action)
    /\ history' = <<>>
    /\ UNCHANGED <<lookup, capture_on_insert, state, preset>>

extend(iter) ==
    /\ register' = HashMap_extend(register, iter)
    /\ history' = <<>>
    /\ UNCHANGED <<lookup, capture_on_insert, state, preset>>

remove(key) ==
    /\ register' = HashMap_remove(register, key)
    /\ history' = <<>>
    /\ UNCHANGED <<lookup, capture_on_insert, state, preset>>

---------------------------------------------------------------------------
(* Constructors, key.rs:28-65 *)

vim_mode == [lookup |-> <<>>, register |-> vim_keybindings, capture_on_insert |-> FALSE]
emacs_mode == [lookup |-> <<>>, register |-> emacs_keybindings, capture_on_insert |-> TRUE]

---------------------------------------------------------------------------
(* The host: the events it forwards and the bindings it customises          *)
(* (examples/custom_keybindings.rs).                                        *)

ctrl_x == one_key(Char("x"), CONTROL)
ctrl_q == one_key(Char("q"), CONTROL)

Events ==
    {one_key(Char("g"), NONE), one_key(Char("a"), NONE), one_key(Char("f"), NONE),
     ctrl_q, one_key(Esc, NONE), one_key(Tab, NONE), one_key(Right, NONE)}

HostKeys == {i(<<ctrl_q>>)}
HostActions == {<<SwitchMode(Normal)>>, <<SwitchMode(Visual)>>}
HostEntries == {<<k, a>> : k \in HostKeys, a \in HostActions}
HostBatches == {b \in HostEntries \X HostEntries : b[1] # b[2]}

Init ==
    /\ preset \in {"vim", "emacs"}
    /\ LET h == IF preset = "vim" THEN vim_mode ELSE emacs_mode
       IN /\ lookup = h.lookup
          /\ register = h.register
          /\ capture_on_insert = h.capture_on_insert
    /\ \E m \in EditorMode : state = [EditorState_new EXCEPT !.mode = m]
    /\ history = <<>>

OnEvent == \E key \in Events : on_event(key)
HostInsert == \E e \in HostEntries : insert(e[1], e[2])
HostExtend == \E b \in HostBatches : extend(b)
HostRemove == \E k \in HostKeys : remove(k)

Next == OnEvent \/ HostInsert \/ HostExtend \/ HostRemove

Spec == Init /\ [][Next]_vars

\* The default set-up: KeyCombinationHandler::default() is vim_mode(), and a
\* new editor state starts in Normal mode.
InitDefault == Init /\ preset = "vim" /\ state.mode = Normal

SpecDefault == InitDefault /\ [][Next]_vars

Last(h) == h[Len(h)]

---------------------------------------------------------------------------
(* The vim preset on a one-line buffer: the editor starts in Normal mode on *)
(* the text "abc" or "hello world", cursor at row 0, column 0, and the host *)
(* forwards the keys d, a and Esc.                                          *)

key_d == one_key(Char("d"), NONE)
key_a == one_key(Char("a"), NONE)
key_esc == one_key(Esc, NONE)

abc == <<"a", "b", "c">>
hello_world == <<"h", "e", "l", "l", "o", " ", "w", "o", "r", "l", "d">>

VimEvents == {key_d, key_a, key_esc}

InitVim ==
    /\ preset = "vim"
    /\ lookup = vim_mode.lookup
    /\ register = vim_mode.register
    /\ capture_on_insert = vim_mode.capture_on_insert
    /\ \E t \in {abc, hello_world} : state = [EditorState_new EXCEPT !.text = t]
    /\ history = <<>>

OnVimEvent == \E key \in VimEvents : on_event(key)

NextVim == OnVimEvent

SpecVim == InitVim /\ [][NextVim]_vars


---------------------------------------------------------------------------
(* A host that customises the vim preset between events: it rebinds or      *)
(* removes the Insert-mode bindings of Esc and 'u', and adds a Ctrl+x       *)
(* binding in bulk (examples/custom_keybindings.rs).                        *)

key_u == one_key(Char("u"), NONE)

CustomEvents == {key_a, key_esc, key_u}

CustomKeys == {i(<<key_esc>>), i(<<key_u>>)}
CustomActions == {<<SwitchMode(Normal)>>, <<Eff("DeleteLine", "1")>>}
CustomEntries == {<<k, a>> : k \in CustomKeys, a \in CustomActions}
CustomBatches ==
    {<<<<n(<<ctrl_x>>), <<Eff("DeleteLine", "1")>>>>, <<n(<<ctrl_x>>), <<SwitchMode(Insert)>>>>>>,
     <<<<n(<<ctrl_x>>), <<SwitchMode(Insert)>>>>, <<n(<<ctrl_x>>), <<Eff("DeleteLine", "1")>>>>>>,
     <<<<i(<<key_esc>>), <<Eff("DeleteLine", "1")>>>>, <<i(<<key_esc>>), <<SwitchMode(Normal)>>>>>>,
     <<<<i(<<key_u>>), <<SwitchMode(Normal)>>>>, <<n(<<ctrl_x>>), <<Eff("DeleteLine", "1")>>>>>>}

OnCustomEvent == \E key \in CustomEvents : on_event(key)
CustomInsert == \E e \in CustomEntries : insert(e[1], e[2])
CustomExtend == \E b \in CustomBatches : extend(b)
CustomRemove == \E k \in CustomKeys : remove(k)

NextHost == OnCustomEvent \/ CustomInsert \/ CustomExtend \/ CustomRemove

SpecHost == InitDefault /\ [][NextHost]_vars

---------------------------------------------------------------------------
(* The vim preset driven through a search: the editor starts in Normal mode *)
(* on an empty buffer and the host forwards '/', 'n', 'N', Backspace,       *)
(* Enter, Esc and Right.                                                    *)

key_slash == one_key(Char("/"), NONE)
key_n == one_key(Char("n"), NONE)
key_N == one_key(Char("N"), NONE)
key_backspace == one_key(Backspace, NONE)
key_enter == one_key(Enter, NONE)
key_right == one_key(Right, NONE)

SearchEvents == {key_slash, key_n, key_N, key_backspace, key_enter, key_esc, key_right}

OnSearchEvent == \E key \in SearchEvents : on_event(key)

NextSearch == OnSearchEvent

SpecSearch == InitDefault /\ [][NextSearch]_vars

---------------------------------------------------------------------------
(* The emacs preset with the editor in Insert mode from the start: the host *)
(* forwards 's', Backspace, Enter, Right and Esc.                           *)

key_s == one_key(Char("s"), NONE)

EmacsEvents == {key_s, key_backspace, key_enter, key_right, key_esc}

InitEmacs ==
    /\ preset = "emacs"
    /\ lookup = emacs_mode.lookup
    /\ register = emacs_mode.register
    /\ capture_on_insert = emacs_mode.capture_on_insert
    /\ state = [EditorState_new EXCEPT !.mode = Insert]
    /\ history = <<>>

OnEmacsEvent == \E key \in EmacsEvents : on_event(key)

NextEmacs == OnEmacsEvent

SpecEmacs == InitEmacs /\ [][NextEmacs]_vars

---------------------------------------------------------------------------
(* The vim preset from any mode: the host forwards Esc and the keys that    *)
(* leave Normal mode, 'a' (Insert), 'v' (Visual) and '/' (Search).          *)

key_v == one_key(Char("v"), NONE)

ModeEvents == {key_esc, key_a, key_v, key_slash}

InitModes ==
    /\ preset = "vim"
    /\ lookup = vim_mode.lookup
    /\ register = vim_mode.register
    /\ capture_on_insert = vim_mode.capture_on_insert
    /\ \E m \in EditorMode : state = [EditorState_new EXCEPT !.mode = m]
    /\ history = <<>>

OnModeEvent == \E key \in ModeEvents : on_event(key)

NextModes == OnModeEvent

SpecModes == InitModes /\ [][NextModes]_vars

---------------------------------------------------------------------------
(* The vim preset typing a change-inner chord: the editor starts in Normal  *)
(* mode on an empty buffer, which has room for the characters the chord's   *)
(* keys can leave in it, and the host forwards 'c', 'i', 'w' and Esc.       *)

key_c == one_key(Char("c"), NONE)
key_i == one_key(Char("i"), NONE)
key_w == one_key(Char("w"), NONE)

ChordEvents == {key_c, key_i, key_w, key_esc}

OnChordEvent == \E key \in ChordEvents : on_event_bounded(key, MaxText + 1)

NextChord == OnChordEvent

SpecChord == InitDefault /\ [][NextChord]_vars
---------------------------------------------------------------------------
(* Properties *)

key_g == one_key(Char("g"), NONE)
key_f == one_key(Char("f"), NONE)
key_tab == one_key(Tab, NONE)

\* this step is the call dispatch(key)
dispatch(key) ==
    /\ history' # <<>>
    /\ Last(history').key = key
    /\ on_event(key)

\* the character a passthrough arm hands to InsertChar / AppendCharToSearch
literal(key) == IF first(key.codes) = Tab THEN "\t" ELSE first(key.codes)[2]

\* the candidate chord of a call: the pending chord plus the new event
candidate(c) == Append(c.pending, c.key)

\* the calls history[from..Len(history)] dispatched exactly the keys of chord
\* k, the first of them in mode k.mode with an empty pending chord
dispatched(k) ==
    LET L == Len(k.keys)
        H == Len(history)
    IN /\ L <= H
       /\ history[H - L + 1].mode = k.mode
       /\ history[H - L + 1].pending = <<>>
       /\ \A j \in 1..L : history[H - L + j].key = k.keys[j]

\* everything the last L calls executed, in order
RECURSIVE executed_by(_, _)
executed_by(h, L) ==
    IF L = 0 THEN <<>>
    ELSE executed_by(SubSeq(h, 1, Len(h) - 1), L - 1) \o Last(h).executed

(* C1: for every chord registered under mode M, dispatching exactly its keys *)
(* in order, starting in mode M with an empty pending chord, executes the    *)
(* bound action exactly once and leaves the pending chord empty.             *)
C1_ChordExecutesOnce ==
    \A k \in DOMAIN register :
        dispatched(k) =>
            /\ executed_by(history, Len(k.keys)) = register[k]
            /\ lookup = <<>>

C3_GetExactOnly ==
    \A j \in 1..Len(history) :
        LET c == history[j]
        IN (c.arm = "get" /\ c.returned # None) =>
              /\ new(candidate(c), c.mode) \in DOMAIN register
              /\ c.returned = Some(register[new(candidate(c), c.mode)])

(* C4: when lookup + [c] is a strict prefix of a chord registered under the  *)
(* current mode, or matches several registered chords, get keeps the key in  *)
(* lookup (non-empty after the call); lookup is reset only on an exact match *)
(* or when no registered chord starts with the sequence.                     *)
C4_LookupKeptOnPrefix ==
    [][\A key \in Events :
          LET pushed == Append(lookup, key)
              matching == matching_keys(register, new(pushed, state.mode))
          IN (dispatch(key) /\ match_arm(first(key.codes), state.mode) = "get")
             => IF matching = {} \/ matching = {new(pushed, state.mode)}
                THEN lookup' = <<>>
                ELSE lookup' = pushed]_vars

(* C5: Insert-mode bypass: a character or Tab dispatched while mode = Insert *)
(* executes InsertChar of that literal character and no registry action, and *)
(* leaves the pending chord as it was, whatever the registry holds.          *)
C5_InsertBypass ==
    [][\A key \in Events :
          (/\ dispatch(key)
           /\ state.mode = Insert
           /\ (is_char(first(key.codes)) \/ first(key.codes) = Tab))
          => /\ Last(history').executed = <<InsertChar(literal(key))>>
             /\ Last(history').returned = None
             /\ Last(history').arm # "get"
             /\ state'.text = insert_at(state.text, state.cursor, literal(key))
             /\ state'.mode = Insert
             /\ lookup' = lookup]_vars

\* 'a' was inserted literally in Insert mode although Normal mode binds 'a'
C5_Witness ==
    /\ history # <<>>
    /\ Last(history).mode = Insert
    /\ Last(history).key = key_a
    /\ n(<<key_a>>) \in DOMAIN register
    /\ Last(history).executed = <<InsertChar("a")>>
    /\ "a" \in {state.text[j] : j \in 1..Len(state.text)}

(* C6: Search-mode bypass: a character dispatched while mode = Search is     *)
(* appended to the search query, no registry action is executed and the      *)
(* pending chord is left as it was, whatever the registry holds.             *)
C6_SearchBypass ==
    [][\A key \in Events :
          (/\ dispatch(key)
           /\ state.mode = Search
           /\ is_char(first(key.codes)))
          => /\ Last(history').executed = <<AppendCharToSearch(literal(key))>>
             /\ Last(history').returned = None
             /\ Last(history').arm # "get"
             /\ state'.search = Append(state.search, literal(key))
             /\ state'.mode = Search
             /\ lookup' = lookup]_vars

\* 'g' was appended to the query in Search mode although the emacs preset
\* binds 'g' under Search
C6_Witness ==
    /\ history # <<>>
    /\ Last(history).mode = Search
    /\ Last(history).key = key_g
    /\ s(<<key_g>>) \in DOMAIN register
    /\ Last(history).executed = <<AppendCharToSearch("g")>>
    /\ state.search = <<"g">>

\* some chord registered under mode M starts with key K
chord_starts_with(M, K) ==
    \E k \in DOMAIN register : k.mode = M /\ Len(k.keys) >= 1 /\ k.keys[1] = K

(* C7 as stated: for a key K and a mode M such that no chord registered      *)
(* under M starts with K, dispatching K while mode = M changes nothing in    *)
(* the editor state and leaves the pending chord empty.                      *)
C7_UnboundKeyIsDropped ==
    [][\A key \in Events :
          (/\ dispatch(key)
           /\ lookup = <<>>
           /\ ~chord_starts_with(state.mode, key))
          => /\ state' = state
             /\ Last(history').executed = <<>>
             /\ lookup' = <<>>]_vars

(* C7 amended: for a key K and a mode M such that no chord registered under  *)
(* M starts with K and K is not taken by a passthrough arm (a character or   *)
(* Tab in Insert mode, a character in Search mode), dispatching K while      *)
(* mode = M changes nothing in the editor state, executes nothing and leaves *)
(* the pending chord empty.                                                  *)
C7_UnboundLookupKeyIsDropped ==
    [][\A key \in Events :
          (/\ dispatch(key)
           /\ lookup = <<>>
           /\ match_arm(first(key.codes), state.mode) = "get"
           /\ ~chord_starts_with(state.mode, key))
          => /\ state' = state
             /\ Last(history').returned = None
             /\ Last(history').executed = <<>>
             /\ lookup' = <<>>]_vars

\* 'f' was dispatched in Normal mode, where no chord starts with it, and
\* nothing was executed
C7_Witness ==
    /\ history # <<>>
    /\ Last(history).mode = Normal
    /\ Last(history).key = key_f
    /\ Last(history).arm = "get"
    /\ ~chord_starts_with(Normal, key_f)
    /\ i(<<key_f>>) \in DOMAIN register
    /\ Last(history).executed = <<>>
    /\ lookup = <<>>

(* C8: capture policy: in the Insert passthrough branch (character or Tab)   *)
(* a handler with capture_on_insert takes exactly one undo checkpoint, of    *)
(* the text before the insertion, and a handler without it takes none;       *)
(* capture_on_insert is false for vim_mode, true for emacs_mode and no       *)
(* operation changes it.                                                     *)
C8_CapturePolicy ==
    /\ [](capture_on_insert = (preset = "emacs"))
    /\ [][capture_on_insert' = capture_on_insert]_vars
    /\ [][\A key \in Events :
             (/\ dispatch(key)
              /\ match_arm(first(key.codes), state.mode) \in {"InsertChar", "InsertTab"})
             => IF capture_on_insert
                THEN /\ state'.undo = Append(state.undo, state.text)
                     /\ Last(history').captured = 1
                ELSE /\ state'.undo = state.undo
                     /\ Last(history').captured = 0]_vars

\* the emacs handler took a checkpoint of the empty text before it inserted
\* the first character
C8_Witness ==
    /\ history # <<>>
    /\ preset = "emacs"
    /\ capture_on_insert
    /\ Last(history).arm = "InsertChar"
    /\ Last(history).captured = 1
    /\ Len(state.text) = 1
    /\ state.undo = << <<>> >>

(* C9: with the emacs preset and mode = Insert, dispatching the key bound to *)
(* "forward" moves the cursor forward one column, inserts no text and takes  *)
(* no undo checkpoint.                                                       *)
C9_EmacsForward ==
    [][(/\ dispatch(key_f)
        /\ preset = "emacs"
        /\ state.mode = Insert)
       => /\ Last(history').executed = <<Eff("MoveForward", "1")>>
          /\ state'.cursor = Min(state.cursor + 1, Len(state.text))
          /\ state'.text = state.text
          /\ state'.undo = state.undo]_vars

(* C10: once the host has inserted (Insert, [Ctrl+q]) -> SwitchMode(Normal)  *)
(* into a vim-preset handler, dispatching Ctrl+q while mode = Insert         *)
(* switches the mode to Normal and inserts no character.                     *)
C10_CtrlQLeavesInsert ==
    [][(/\ dispatch(ctrl_q)
        /\ preset = "vim"
        /\ i(<<ctrl_q>>) \in DOMAIN register
        /\ register[i(<<ctrl_q>>)] = <<SwitchMode(Normal)>>
        /\ state.mode = Insert)
       => /\ state'.mode = Normal
          /\ state'.text = state.text]_vars

(* C11: with the vim preset, mode = Normal and the one-line buffer           *)
(* "hello world", dispatching 'd','d' executes DeleteLine once and nothing   *)
(* else, the line is gone and the mode is still Normal.                      *)
C11_DeleteLine ==
    (/\ preset = "vim"
     /\ dispatched(n(<<key_d, key_d>>))
     /\ state.text \in {hello_world, <<>>})
    => /\ executed_by(history, 2) = <<Eff("DeleteLine", "1")>>
       /\ state.text = <<>>
       /\ state.mode = Normal

\* the chords registered under mode M that begin with the chord P
chords_beginning_with(M, P) ==
    {k \in DOMAIN register :
        /\ k.mode = M
        /\ Len(P) <= Len(k.keys)
        /\ SubSeq(k.keys, 1, Len(P)) = P}

(* C12: action selection is deterministic: for a given registry, mode and    *)
(* candidate chord the action executed is the one of the exactly matching    *)
(* chord if there is one, else of a shortest registered chord beginning with *)
(* the candidate (the registry keeps no registration order to break a tie    *)
(* with); in vim Normal mode 'd' always selects the action of ['d'].         *)
C12_DeterministicSelection ==
    \A j \in 1..Len(history) :
        LET c == history[j]
            P == candidate(c)
            M == chords_beginning_with(c.mode, P)
        IN (c.arm = "get" /\ c.returned # None) =>
              IF new(P, c.mode) \in M
              THEN c.returned = Some(register[new(P, c.mode)])
              ELSE \E k \in M :
                      /\ \A h \in M : Len(k.keys) <= Len(h.keys)
                      /\ c.returned = Some(register[k])

C14_ModeScoping ==
    \A j \in 1..Len(history) :
        LET c == history[j]
            M == chords_beginning_with(c.mode, candidate(c))
        IN c.arm = "get" =>
              IF c.returned # None
              THEN \E k \in M : /\ c.returned = Some(register[k])
                                /\ c.executed = register[k]
              ELSE M = {} /\ c.executed = <<>>

\* Esc left Insert mode through the binding (Insert, [Esc]); the same key
\* dispatched again, now in Normal mode, executed nothing
C14_Witness ==
    /\ Len(history) >= 2
    /\ history[Len(history) - 1].key = key_esc
    /\ history[Len(history) - 1].mode = Insert
    /\ history[Len(history) - 1].executed = <<SwitchMode(Normal)>>
    /\ Last(history).key = key_esc
    /\ Last(history).mode = Normal
    /\ i(<<key_esc>>) \in DOMAIN register
    /\ n(<<key_esc>>) \notin DOMAIN register
    /\ Last(history).returned = None
    /\ Last(history).executed = <<>>

\* k is the only chord registered under its mode that begins with k's keys
bound_alone(k) == chords_beginning_with(k.mode, k.keys) = {k}

\* in mode M the event carries a key code that on_event hands to the buffer or
\* to the search query before it looks at the registry
taken_as_text(key, M) ==
    \/ M = Insert /\ (first(key.codes)[1] = "Char" \/ first(key.codes) = Tab)
    \/ M = Search /\ first(key.codes)[1] = "Char"

\* insert(k, a) binds k to a, and keeps the number of entries when k was bound
insert_overwrites ==
    \A e \in CustomEntries :
        (history' = <<>> /\ insert(e[1], e[2])) =>
            /\ e[1] \in DOMAIN register'
            /\ register'[e[1]] = e[2]
            /\ (e[1] \in DOMAIN register =>
                    Cardinality(DOMAIN register') = Cardinality(DOMAIN register))

C16_ExtendIsInsertsInOrder ==
    [][\A b \in CustomBatches :
         (history' = <<>> /\ extend(b)) =>
            /\ register' = HashMap_insert(HashMap_insert(register, b[1][1], b[1][2]),
                                          b[2][1], b[2][2])
            /\ DOMAIN register' = DOMAIN register \cup {b[1][1], b[2][1]}
            /\ register'[b[2][1]] = b[2][2]
            /\ (b[1][1] # b[2][1] => register'[b[1][1]] = b[1][2])
            /\ \A k \in DOMAIN register \ {b[1][1], b[2][1]} :
                   register'[k] = register[k]]_vars

\* (Normal, [Ctrl+x]), which only extend binds, is bound to SwitchMode(Insert),
\* the second entry of the batch that names it twice
C16_Witness ==
    /\ n(<<ctrl_x>>) \notin DOMAIN vim_keybindings
    /\ n(<<ctrl_x>>) \in DOMAIN register
    /\ register[n(<<ctrl_x>>)] = <<SwitchMode(Insert)>>
    /\ history = <<>>

\* remove(k) changes nothing of the handler when k is not bound, and deletes
\* exactly the entry of k when it is
remove_deletes_one ==
    \A k \in CustomKeys :
        (history' = <<>> /\ remove(k)) =>
            IF k \notin DOMAIN register
            THEN /\ register' = register
                 /\ lookup' = lookup
                 /\ capture_on_insert' = capture_on_insert
            ELSE /\ DOMAIN register' = DOMAIN register \ {k}
                 /\ \A h \in DOMAIN register' : register'[h] = register[h]

only_entry_changed(k) ==
    /\ DOMAIN register' \ {k} = DOMAIN register \ {k}
    /\ \A h \in DOMAIN register \ {k} : register'[h] = register[h]
    /\ lookup' = lookup
    /\ capture_on_insert' = capture_on_insert

(* C18: insert(k, a) and remove(k) change the registry entry of k only:      *)
(* every other (mode, chord) key is bound to the same action before and      *)
(* after, and the pending chord and capture_on_insert are unchanged.         *)
C18_OtherBindingsKept ==
    [][/\ \A e \in CustomEntries :
            (history' = <<>> /\ insert(e[1], e[2])) => only_entry_changed(e[1])
       /\ \A k \in CustomKeys :
            (history' = <<>> /\ remove(k)) => only_entry_changed(k)]_vars

\* the host removed (Insert, [Esc]) and rebound (Insert, ['u']); every other
\* binding is the preset's, and 'a' dispatched in Normal mode executed the
\* preset's action
C18_Witness ==
    /\ i(<<key_esc>>) \notin DOMAIN register
    /\ i(<<key_u>>) \in DOMAIN register
    /\ register[i(<<key_u>>)] = <<SwitchMode(Normal)>>
    /\ DOMAIN register = DOMAIN vim_keybindings \ {i(<<key_esc>>)}
    /\ \A k \in DOMAIN register \ {i(<<key_u>>)} : register[k] = vim_keybindings[k]
    /\ history # <<>>
    /\ Last(history).key = key_a
    /\ Last(history).mode = Normal
    /\ Last(history).executed = vim_keybindings[n(<<key_a>>)]

(* C19: on_event never creates, replaces or removes a registry entry: the    *)
(* registry after the call is the registry before it, whatever the event,    *)
(* the mode and the executed action are.                                     *)
C19_DispatchKeepsRegistry ==
    [][\A key \in Events : dispatch(key) => register' = register]_vars

\* 'a' dispatched in Normal mode executed the composed action that starts
\* with a SwitchMode, and the registry is still the vim preset's
C19_Witness ==
    /\ preset = "vim"
    /\ register = vim_keybindings
    /\ history # <<>>
    /\ Last(history).key = key_a
    /\ Last(history).mode = Normal
    /\ Last(history).executed = <<SwitchMode(Insert), Eff("MoveForward", "1")>>
    /\ state.mode = Insert

(* C20: a composed action runs its children in declared order, each child    *)
(* on the state the previous one left: with the vim preset, Normal mode,     *)
(* text "abc" and the cursor in column 0, dispatching 'a' executes           *)
(* SwitchMode(Insert) and then MoveForward(1), and leaves the editor in      *)
(* Insert mode with the cursor in column 1.                                  *)
C20_ComposedInOrder ==
    [][(/\ dispatch(key_a)
        /\ preset = "vim"
        /\ lookup = <<>>
        /\ state.mode = Normal
        /\ state.text = abc
        /\ state.cursor = 0) =>
            /\ Last(history').executed = <<SwitchMode(Insert), Eff("MoveForward", "1")>>
            /\ state' = apply(Eff("MoveForward", "1"), apply(SwitchMode(Insert), state))
            /\ state'.mode = Insert
            /\ state'.cursor = 1
            /\ state'.text = abc]_vars

\* 'a' was dispatched in Normal mode on "abc" with an empty pending chord;
\* the editor is in Insert mode, the cursor in column 1
C20_Witness ==
    /\ preset = "vim"
    /\ history # <<>>
    /\ Last(history).key = key_a
    /\ Last(history).mode = Normal
    /\ Last(history).pending = <<>>
    /\ Len(Last(history).executed) = 2
    /\ state.text = abc
    /\ state.mode = Insert
    /\ state.cursor = 1

(* C21: the search lifecycle of the vim preset: in Normal mode '/' runs      *)
(* StartSearch and then enters Search mode, 'n' runs FindNext and 'N' runs   *)
(* FindPrevious; in Search mode a character is appended to the query and     *)
(* Backspace runs RemoveCharFromSearch, both staying in Search mode, Enter   *)
(* runs FindFirst and Esc runs StopSearch, both then entering Normal mode,   *)
(* and no other key leaves Search mode.                                      *)
C21_SearchLifecycle ==
    [][\A key \in SearchEvents :
         (dispatch(key) /\ preset = "vim") =>
            LET c == Last(history')
                code == first(key.codes)
            IN /\ (state.mode = Normal /\ key = key_slash) =>
                      /\ c.executed = <<Eff("StartSearch", ""), SwitchMode(Search)>>
                      /\ state'.mode = Search
               /\ (state.mode = Normal /\ key = key_n) =>
                      c.executed = <<Eff("FindNext", "")>>
               /\ (state.mode = Normal /\ key = key_N) =>
                      c.executed = <<Eff("FindPrevious", "")>>
               /\ (state.mode = Search /\ code[1] = "Char") =>
                      /\ c.executed = <<AppendCharToSearch(code[2])>>
                      /\ state'.search = Append(state.search, code[2])
                      /\ state'.mode = Search
               /\ (state.mode = Search /\ key = key_backspace) =>
                      /\ c.executed = <<Eff("RemoveCharFromSearch", "")>>
                      /\ state'.mode = Search
               /\ (state.mode = Search /\ key = key_enter) =>
                      /\ c.executed = <<Eff("FindFirst", ""), SwitchMode(Normal)>>
                      /\ state'.mode = Normal
               /\ (state.mode = Search /\ key = key_esc) =>
                      /\ c.executed = <<Eff("StopSearch", ""), SwitchMode(Normal)>>
                      /\ state'.mode = Normal
               /\ (state.mode = Search /\ key \notin {key_enter, key_esc}) =>
                      state'.mode = Search]_vars

\* '/' entered Search mode, 'n' went to the query, Enter committed the search
\* and the editor is back in Normal mode
C21_Witness ==
    /\ preset = "vim"
    /\ Len(history) = 3
    /\ history[1].key = key_slash /\ history[1].mode = Normal
    /\ history[2].key = key_n /\ history[2].mode = Search
    /\ history[2].executed = <<AppendCharToSearch("n")>>
    /\ history[3].key = key_enter /\ history[3].mode = Search
    /\ history[3].executed = <<Eff("FindFirst", ""), SwitchMode(Normal)>>
    /\ state.search = <<"n">>
    /\ state.mode = Normal

\* the actions bound under mode M to a chord whose first key is the event;
\* no other key of a chord and no earlier event enters the definition
bound_to_first_key(M, key) ==
    {register[k] : k \in {h \in DOMAIN register : h.mode = M /\ h.keys[1] = key}}

C24_EmacsStaysInInsert ==
    /\ state.mode = Insert
    /\ \A j \in 1..Len(history) :
          /\ history[j].mode = Insert
          /\ \A k \in DOMAIN register :
                k.mode = Search => history[j].executed # register[k]

\* 's', which the preset binds under Insert to StartSearch and
\* SwitchMode(Search), was inserted as a character; Backspace then ran its
\* binding, which passes through Visual mode and ends in Insert mode
C24_Witness ==
    /\ preset = "emacs"
    /\ register[i(<<key_s>>)] = <<Eff("StartSearch", ""), SwitchMode(Search)>>
    /\ Len(history) >= 2
    /\ history[Len(history) - 1].key = key_s
    /\ history[Len(history) - 1].executed = <<InsertChar("s")>>
    /\ Last(history).key = key_backspace
    /\ Last(history).executed[1] = SwitchMode(Visual)
    /\ Last(history).executed = register[i(<<key_backspace>>)]
    /\ state.mode = Insert

(* C25: with the vim preset, dispatching Esc leaves the editor in Normal     *)
(* mode: from Insert and Visual it runs SwitchMode(Normal), from Search it   *)
(* runs StopSearch and then SwitchMode(Normal), in Normal it matches nothing *)
(* and is dropped; Esc can be dispatched in every reachable state.           *)
C25_EscLeadsToNormal ==
    /\ [](ENABLED on_event(key_esc))
    /\ [][(dispatch(key_esc) /\ preset = "vim") =>
            LET c == Last(history')
            IN /\ state'.mode = Normal
               /\ (state.mode \in {Insert, Visual}) =>
                      c.executed = <<SwitchMode(Normal)>>
               /\ (state.mode = Search) =>
                      c.executed = <<Eff("StopSearch", ""), SwitchMode(Normal)>>
               /\ (state.mode = Normal) =>
                      /\ c.returned = None
                      /\ c.executed = <<>>
                      /\ state' = state]_vars

\* '/' entered Search mode from Normal mode and Esc, dispatched in Search
\* mode, ran StopSearch and SwitchMode(Normal)
C25_Witness ==
    /\ preset = "vim"
    /\ Len(history) >= 2
    /\ history[Len(history) - 1].key = key_slash
    /\ history[Len(history) - 1].mode = Normal
    /\ Last(history).key = key_esc
    /\ Last(history).mode = Search
    /\ Last(history).executed = <<Eff("StopSearch", ""), SwitchMode(Normal)>>
    /\ state.mode = Normal

\* the actions the vim preset binds under Normal to a chord beginning with 'c'
change_inner == {register[k] : k \in chords_beginning_with(Normal, <<key_c>>)}

====
